---- MODULE Spec2Model ----
(***************************************************************************)
(* The name-keyed factory registry of register.h: the Registry Table       *)
(* RegisterBase::creators_, the factory interface of RegisterBase, the     *)
(* self-naming wrapper Register<Child, Base, Name> and its registration    *)
(* guard RegisterActivator, for one Base with no constructor arguments;    *)
(* and the Towers of Hanoi game of curses-ui.cpp.                          *)
(***************************************************************************)
EXTENDS Integers, Sequences, FiniteSets, TLC

(***************************************************************************)
(* Bounds of the model.                                                    *)
(***************************************************************************)
\* number of non-empty names the callers pass
MaxNames == 2
\* number of child types Register<Child_c, Base, Name_c>, c = 1..NumChildren
NumChildren == 2

(***************************************************************************)
(* Names are std::string values: sequences of character codes, here the    *)
(* letters A = 1, B = 2, C = 3.  NameList gives the names the callers use, *)
(* in an order that is not the alphabetic one ("B", "A", "AB", ...).       *)
(***************************************************************************)
Empty  == << >>
NameB  == <<2>>
NameA  == <<1>>
NameAB == <<1, 2>>
NameC  == <<3>>
NameBA == <<2, 1>>

NameList == <<NameB, NameA, NameAB, NameC, NameBA>>
BoundNamesUniverse == {NameList[i] : i \in 1..MaxNames}
Names == BoundNamesUniverse \cup {Empty}

Children == 1..NumChildren

\* the null pointer of a `const char* Name` template argument
nullptr == <<-1>>
\* the null Base* and the absence of a creator
NullObj == 0

\* template argument Name of Register<Child, Base, Name>: the first child
\* type is declared with the fixed name "A", the others with none
Name(Child) == IF Child = 1 THEN NameA ELSE nullptr

VARIABLES
  creators_,   \* RegisterBase::creators_: name -> creator
  name_,       \* Register<Child, Base, Name>::name_, one per child type
  last         \* the last call: operation, arguments and what it returned

vars == <<creators_, name_, last>>

VARIABLES
  registered,  \* `static bool registered` of RegisterActivator<Child, Base, Name>
  guardCalls   \* how often the guard of each child type has called SetChild

guardVars == <<registered, guardCalls>>

VARIABLES
  owned        \* the handle a caller holds: the instance it was made for,
               \* what the caller got, and how often the instance was released

ownVars == <<owned>>

VARIABLES
  initialised, \* the static data members whose initialiser has run
  crashed      \* the program was ended by a use of the unconstructed table

initVars == <<initialised, crashed>>

VARIABLES
  Pegs,        \* Pegs[peg].Length[slot], Pegs[peg].Count
  NMoves,      \* the move counter MakeMove increments
  NTiles,      \* main's NTiles, from the -n / -a option
  AutoFlag,    \* main's AutoFlag: TRUE for -a
  pc,          \* where main is
  stack,       \* the activations of AutoMove, the innermost last
  calls,       \* how many times MakeMove has been called
  loops        \* how many times the demo loop has called AutoMove

hanoiVars == <<Pegs, NMoves, NTiles, AutoFlag, pc, stack, calls, loops>>

\* what the operations of the registry leave alone
others == <<guardVars, ownVars, initVars, hanoiVars>>

\* what the guard leaves alone, besides name_
guardFrame == <<ownVars, initVars, hanoiVars>>

\* what the handles leave alone
ownFrame == <<guardVars, initVars, hanoiVars>>

\* what the static initialisers leave alone
staticFrame == <<ownVars, hanoiVars>>

\* what the game leaves alone
hanoiFrame == <<vars, guardVars, ownVars, initVars>>

allVars == <<vars, others>>

(***************************************************************************)
(* std::string and the unordered_map.                                      *)
(***************************************************************************)
\* std::string::c_str() read back as a C string: up to the first NUL
RECURSIVE c_str(_)
c_str(s) ==
  IF s = << >> THEN << >>
  ELSE IF Head(s) = 0 THEN << >>
  ELSE <<Head(s)>> \o c_str(Tail(s))

\* operator< of std::string: lexicographic on the character codes
RECURSIVE StrLess(_, _)
StrLess(a, b) ==
  IF b = << >> THEN FALSE
  ELSE IF a = << >> THEN TRUE
  ELSE IF Head(a) < Head(b) THEN TRUE
  ELSE IF Head(a) > Head(b) THEN FALSE
  ELSE StrLess(Tail(a), Tail(b))

\* a default-constructed unordered_map: no key
EmptyTable == [k \in {} |-> 0]

\* unordered_map::count
count(tab, name) == IF name \in DOMAIN tab THEN 1 ELSE 0

\* unordered_map::erase(find(name))
erase(tab, name) == [k \in DOMAIN tab \ {name} |-> tab[k]]

\* creators_[name] = creator for a key that is absent
insert(tab, name, creator) ==
  [k \in DOMAIN tab \cup {name} |-> IF k = name THEN creator ELSE tab[k]]

\* creators_[name] for a key that is present
at(tab, name) == tab[name]

\* the orders in which a range-for can visit the keys of the unordered_map:
\* the iteration order of the container is unspecified
IterationOrders(tab) ==
  LET n == Cardinality(DOMAIN tab) IN
  {s \in [1..n -> DOMAIN tab] : \A i, j \in 1..n : i # j => s[i] # s[j]}

(***************************************************************************)
(* Creators.                                                               *)
(***************************************************************************)
\* RegisterCreatorContainer<Child, Base>::GetCreator(): the singleton
\* creator of Child, identified with Child
GetCreator(Child) == Child

\* RegisterCreatorBase::Create, the version a creator without the override runs
RegisterCreatorBase_Create(creator) == NullObj

\* RegisterCreator<Child, Base>::Create: new Child, given by its dynamic type
RegisterCreator_Create(creator) == creator

(***************************************************************************)
(* RegisterBase, as functions of the table.                                *)
(***************************************************************************)
HasChildIn(tab, name) == count(tab, name) # 0

HasChild(name) == HasChildIn(creators_, name)

\* Create constructing an instance of the base type for the empty name
CreateIn_base(tab, name) ==
  IF name = Empty THEN NumChildren + 1
  ELSE IF count(tab, name) = 0 THEN NullObj
  ELSE RegisterCreator_Create(at(tab, name))

\* the type Create(name) constructs, NullObj when it returns nullptr
CreateIn(tab, name) ==
  IF count(tab, name) = 0 THEN NullObj
  ELSE RegisterCreator_Create(at(tab, name))

\* RemoveChild emptying the table instead of erasing one key
RemoveChild_clear(tab, name) ==
  IF HasChildIn(tab, name)
    THEN [tab |-> EmptyTable, ret |-> TRUE]
    ELSE [tab |-> tab, ret |-> FALSE]

\* RemoveChild: the table after the call and the value returned
RemoveChildIn(tab, name) ==
  IF HasChildIn(tab, name)
    THEN [tab |-> erase(tab, name), ret |-> TRUE]
    ELSE [tab |-> tab, ret |-> FALSE]

\* SetChild without the HasChild test: a bound name is overwritten
SetChild_overwrite(tab, Child, name) ==
  IF Len(name) # 0
    THEN [tab |-> insert(tab, name, GetCreator(Child)), ret |-> TRUE]
    ELSE [tab |-> tab, ret |-> FALSE]

\* SetChild without the name.empty() test
SetChild_noempty(tab, Child, name) ==
  IF HasChildIn(tab, name)
    THEN [tab |-> tab, ret |-> FALSE]
    ELSE [tab |-> insert(tab, name, GetCreator(Child)), ret |-> TRUE]

\* SetChild<Child>: the table after the call and the value returned
SetChildIn(tab, Child, name) ==
  IF Len(name) # 0
    THEN IF HasChildIn(tab, name)
           THEN [tab |-> tab, ret |-> FALSE]
           ELSE [tab |-> insert(tab, name, GetCreator(Child)), ret |-> TRUE]
    ELSE [tab |-> tab, ret |-> FALSE]

\* GetChildren: the keys pushed in the order the range-for visits them
GetChildren(order) == [i \in DOMAIN order |-> order[i]]

(***************************************************************************)
(* Register<Child, Base, Name>.                                            *)
(***************************************************************************)
\* the constructor Register(), run for every instance of Child: it assigns
\* the static name_
Register(Child, names) ==
  IF Name(Child) # nullptr
    THEN [names EXCEPT ![Child] = Name(Child)]
    ELSE [names EXCEPT ![Child] = Empty]

GetName(Child) == c_str(name_[Child])

\* name() of a live instance of Child
name(Child) == c_str(name_[Child])

\* the static name_ after an instance of dynamic type obj was constructed
Constructed(obj, names) ==
  IF obj = NullObj THEN names ELSE Register(obj, names)

(***************************************************************************)
(* The handles of CreateUnique and CreateShared.  Both return a reference  *)
(* to a temporary that is destroyed before the caller can read it: what    *)
(* the caller reads is indeterminate.                                      *)
(***************************************************************************)
HandleOutcomes == {"empty", "dangling"}

NoList == << >>

Call(op, child, nm, ret, obj, handle, list) ==
  [op |-> op, child |-> child, name |-> nm, ret |-> ret, obj |-> obj,
   handle |-> handle, list |-> list]

\* the static members after their initialisation: creators_ default-
\* constructed, every name_ the empty string
RegistryInit ==
  /\ creators_ = EmptyTable
  /\ name_ = [c \in Children |-> Empty]
  /\ last = Call("init", 0, Empty, FALSE, NullObj, "none", NoList)

\* the guards as the program leaves them: activate() is never called, so no
\* activator_ is instantiated and no guard runs
GuardIdle ==
  /\ registered = [c \in Children |-> FALSE]
  /\ guardCalls = [c \in Children |-> 0]

\* no caller holds a handle
NoHandle == [obj |-> NullObj, handle |-> "none", releases |-> 0]

\* the static data members with a dynamic initialiser: the table, the
\* creator singleton of each child type and, where instantiated, its guard
TableMember == <<"creators_", 0>>
Initialisers ==
  {TableMember} \cup {<<"creator_", c>> : c \in Children}
                \cup {<<"activator_", c>> : c \in Children}

\* main() has been entered: every initialiser has run
Started ==
  /\ initialised = Initialisers
  /\ crashed = FALSE

(***************************************************************************)
(* The Towers of Hanoi game of curses-ui.cpp: the board.                   *)
(***************************************************************************)
\* the largest number of tiles the game is started with
MaxTiles == 3
\* the largest number of moves a player makes
MaxMoves == 7

NPEGS == 3
PegIds == 0..(NPEGS - 1)
Slots == 0..(MaxTiles - 1)

\* the board and the counter before main has run: static storage, zeroed
ProgramStart ==
  /\ Pegs = [p \in PegIds |-> [Length |-> [s \in Slots |-> 0], Count |-> 0]]
  /\ NMoves = 0

\* main before InitTiles, with nothing on the stack and nothing counted
MainStart ==
  /\ pc = "init"
  /\ stack = << >>
  /\ calls = 0
  /\ loops = 0

\* a program that does not play the game
HanoiIdle ==
  /\ ProgramStart
  /\ MainStart
  /\ NTiles = 0
  /\ AutoFlag = FALSE

Init ==
  /\ RegistryInit
  /\ GuardIdle
  /\ owned = NoHandle
  /\ Started
  /\ HanoiIdle

(***************************************************************************)
(* The operations.                                                         *)
(***************************************************************************)
Create(nm) ==
  LET obj == CreateIn(creators_, nm) IN
  /\ name_' = Constructed(obj, name_)
  /\ last' = Call("Create", 0, nm, obj # NullObj, obj, "none", NoList)
  /\ UNCHANGED creators_

CreateUnique(nm) ==
  LET obj == CreateIn(creators_, nm) IN
  /\ name_' = Constructed(obj, name_)
  /\ \E h \in HandleOutcomes :
       last' = Call("CreateUnique", 0, nm, obj # NullObj, obj, h, NoList)
  /\ UNCHANGED creators_

CreateShared(nm) ==
  LET obj == CreateIn(creators_, nm) IN
  /\ name_' = Constructed(obj, name_)
  /\ \E h \in HandleOutcomes :
       last' = Call("CreateShared", 0, nm, obj # NullObj, obj, h, NoList)
  /\ UNCHANGED creators_

HasChildCall(nm) ==
  /\ last' = Call("HasChild", 0, nm, HasChild(nm), NullObj, "none", NoList)
  /\ UNCHANGED <<creators_, name_>>

RemoveChild(nm) ==
  LET r == RemoveChildIn(creators_, nm) IN
  /\ creators_' = r.tab
  /\ last' = Call("RemoveChild", 0, nm, r.ret, NullObj, "none", NoList)
  /\ UNCHANGED name_

SetChild(Child, nm) ==
  LET r == SetChildIn(creators_, Child, nm) IN
  /\ creators_' = r.tab
  /\ last' = Call("SetChild", Child, nm, r.ret, NullObj, "none", NoList)
  /\ UNCHANGED name_

GetChildrenCall ==
  /\ \E order \in IterationOrders(creators_) :
       last' = Call("GetChildren", 0, Empty, TRUE, NullObj, "none",
                    GetChildren(order))
  /\ UNCHANGED <<creators_, name_>>

\* SetName clearing name_ when the new binding fails
SetName_clear(Child, nm) ==
  LET removed == RemoveChildIn(creators_, name_[Child])
      r == SetChildIn(removed.tab, Child, nm) IN
  /\ creators_' = r.tab
  /\ name_' = IF r.ret THEN [name_ EXCEPT ![Child] = nm]
              ELSE [name_ EXCEPT ![Child] = Empty]
  /\ last' = Call("SetName", Child, nm, r.ret, NullObj, "none", NoList)

\* SetName assigning name_ whether or not the new binding succeeded
SetName_assign(Child, nm) ==
  LET removed == RemoveChildIn(creators_, name_[Child])
      r == SetChildIn(removed.tab, Child, nm) IN
  /\ creators_' = r.tab
  /\ name_' = [name_ EXCEPT ![Child] = nm]
  /\ last' = Call("SetName", Child, nm, r.ret, NullObj, "none", NoList)

SetName(Child, nm) ==
  LET removed == RemoveChildIn(creators_, name_[Child])
      r == SetChildIn(removed.tab, Child, nm) IN
  /\ creators_' = r.tab
  /\ name_' = IF r.ret THEN [name_ EXCEPT ![Child] = nm] ELSE name_
  /\ last' = Call("SetName", Child, nm, r.ret, NullObj, "none", NoList)

Next ==
  \/ \E nm \in Names : Create(nm) /\ UNCHANGED others
  \/ \E nm \in Names : CreateUnique(nm) /\ UNCHANGED others
  \/ \E nm \in Names : CreateShared(nm) /\ UNCHANGED others
  \/ \E nm \in Names : HasChildCall(nm) /\ UNCHANGED others
  \/ \E nm \in Names : RemoveChild(nm) /\ UNCHANGED others
  \/ \E c \in Children, nm \in Names : SetChild(c, nm) /\ UNCHANGED others
  \/ GetChildrenCall /\ UNCHANGED others
  \/ \E c \in Children, nm \in Names : SetName(c, nm) /\ UNCHANGED others

Spec == Init /\ [][Next]_allVars

\* a child type that is registered and renamed through SetName only
NextRename ==
  \/ \E nm \in Names : Create(nm) /\ UNCHANGED others
  \/ \E nm \in Names : CreateUnique(nm) /\ UNCHANGED others
  \/ \E nm \in Names : CreateShared(nm) /\ UNCHANGED others
  \/ \E nm \in Names : HasChildCall(nm) /\ UNCHANGED others
  \/ GetChildrenCall /\ UNCHANGED others
  \/ \E c \in Children, nm \in Names : SetName(c, nm) /\ UNCHANGED others

SpecRename == Init /\ [][NextRename]_allVars

\* the calls that change the table or a name, with no instance constructed
NextNames ==
  \/ \E nm \in Names : RemoveChild(nm) /\ UNCHANGED others
  \/ \E c \in Children, nm \in Names : SetChild(c, nm) /\ UNCHANGED others
  \/ \E c \in Children, nm \in Names : SetName(c, nm) /\ UNCHANGED others

SpecNames == Init /\ [][NextNames]_allVars

(***************************************************************************)
(* The registration guard.  RegisterActivator is a public class template:  *)
(* the guard is triggered by constructing a RegisterActivator<Child, Base, *)
(* Name>, which is what the initialisation of Register::activator_ does    *)
(* once that member is instantiated.                                       *)
(***************************************************************************)
\* the guard without its flag: every construction calls SetChild
RegisterActivator_noflag(Child) ==
  LET call == Name(Child) # nullptr
      r == IF call THEN SetChildIn(creators_, Child, Name(Child))
           ELSE [tab |-> creators_, ret |-> FALSE] IN
  /\ registered' = registered
  /\ guardCalls' = IF call THEN [guardCalls EXCEPT ![Child] = @ + 1]
                   ELSE guardCalls
  /\ creators_' = r.tab
  /\ last' = Call("RegisterActivator", Child, Name(Child), r.ret, NullObj,
                  "none", NoList)
  /\ UNCHANGED name_

RegisterActivator(Child) ==
  LET call == ~registered[Child] /\ Name(Child) # nullptr
      r == IF call THEN SetChildIn(creators_, Child, Name(Child))
           ELSE [tab |-> creators_, ret |-> FALSE] IN
  /\ registered' = [registered EXCEPT ![Child] = TRUE]
  /\ guardCalls' = IF call THEN [guardCalls EXCEPT ![Child] = @ + 1]
                   ELSE guardCalls
  /\ creators_' = r.tab
  /\ last' = Call("RegisterActivator", Child, Name(Child), r.ret, NullObj,
                  "none", NoList)
  /\ UNCHANGED name_

\* the registry with the guards triggered at any time, any number of times
NextGuard ==
  \/ \E nm \in Names : Create(nm) /\ UNCHANGED others
  \/ \E nm \in Names : HasChildCall(nm) /\ UNCHANGED others
  \/ \E nm \in Names : RemoveChild(nm) /\ UNCHANGED others
  \/ \E c \in Children, nm \in Names : SetChild(c, nm) /\ UNCHANGED others
  \/ \E c \in Children : RegisterActivator(c) /\ UNCHANGED guardFrame

SpecGuard == Init /\ [][NextGuard]_allVars

(***************************************************************************)
(* Ownership of the instances made by CreateUnique and CreateShared.  Both *)
(* build the handle as a temporary, `uptr(Create(name, args...))`, and     *)
(* return a reference to it: the temporary is destroyed when the return    *)
(* statement ends, and its destructor releases the instance.  What the     *)
(* caller gets is read through the dangling reference (HandleOutcomes).    *)
(***************************************************************************)
\* the releases of the instance by the destructor of the temporary handle
TemporaryReleases(obj) == IF obj # NullObj THEN 1 ELSE 0

\* the releases by the destructor of the caller's handle: a handle that is
\* empty releases nothing, one that still holds the pointer releases it
HandleReleases(obj, handle) ==
  IF handle = "dangling" /\ obj # NullObj THEN 1 ELSE 0

\* the caller initialises a handle of its own from what the call returned
Hold ==
  /\ owned.handle = "none"
  /\ owned' = [obj |-> last'.obj, handle |-> last'.handle,
               releases |-> TemporaryReleases(last'.obj)]

\* the caller's handle reaches the end of its scope
ScopeExit ==
  /\ owned.handle # "none"
  /\ owned' = [owned EXCEPT
                 !.handle = "none",
                 !.releases = @ + HandleReleases(owned.obj, owned.handle)]
  /\ last' = Call("ScopeExit", 0, Empty, FALSE, owned.obj, "none", NoList)
  /\ UNCHANGED <<creators_, name_>>

NextOwnership ==
  \/ \E c \in Children, nm \in Names :
       SetChild(c, nm) /\ UNCHANGED others
  \/ \E nm \in Names : CreateUnique(nm) /\ Hold /\ UNCHANGED ownFrame
  \/ \E nm \in Names : CreateShared(nm) /\ Hold /\ UNCHANGED ownFrame
  \/ ScopeExit /\ UNCHANGED ownFrame

SpecOwnership == Init /\ [][NextOwnership]_allVars

(***************************************************************************)
(* Static initialisation.  creators_, creator_ and activator_ are static   *)
(* data members of class templates, defined at namespace scope in the      *)
(* header: their dynamic initialisation is unordered.  Here every child    *)
(* type has its activator_ instantiated.  A SetChild on the table before   *)
(* its constructor has run is undefined: the program is ended, or the      *)
(* write goes to the zero-initialised storage and is discarded when the    *)
(* constructor runs.                                                       *)
(***************************************************************************)
InitStatic ==
  /\ RegistryInit
  /\ GuardIdle
  /\ owned = NoHandle
  /\ initialised = {}
  /\ crashed = FALSE
  /\ HanoiIdle

EarlyUseOutcomes == {"ended", "written"}

\* the initialiser of creators_: the default constructor of the table
ConstructTable ==
  /\ ~crashed
  /\ TableMember \notin initialised
  /\ initialised' = initialised \cup {TableMember}
  /\ creators_' = EmptyTable
  /\ last' = Call("creators_", 0, Empty, FALSE, NullObj, "none", NoList)
  /\ UNCHANGED <<name_, crashed>>

\* the initialiser of a creator_ singleton: it does not touch the table
ConstructCreator(Child) ==
  /\ ~crashed
  /\ <<"creator_", Child>> \notin initialised
  /\ initialised' = initialised \cup {<<"creator_", Child>>}
  /\ last' = Call("creator_", Child, Empty, FALSE, NullObj, "none", NoList)
  /\ UNCHANGED <<creators_, name_, crashed>>

\* the initialiser of an activator_: the constructor of the guard
ConstructActivator(Child) ==
  /\ ~crashed
  /\ <<"activator_", Child>> \notin initialised
  /\ initialised' = initialised \cup {<<"activator_", Child>>}
  /\ RegisterActivator(Child)
  /\ IF TableMember \in initialised \/ guardCalls'[Child] = guardCalls[Child]
       THEN crashed' = crashed
       ELSE \E outcome \in EarlyUseOutcomes : crashed' = (outcome = "ended")

NextStaticInit ==
  \/ ConstructTable /\ UNCHANGED <<guardVars, staticFrame>>
  \/ \E c \in Children :
       ConstructCreator(c) /\ UNCHANGED <<guardVars, staticFrame>>
  \/ \E c \in Children : ConstructActivator(c) /\ UNCHANGED staticFrame
  \/ \E nm \in Names : Started /\ Create(nm) /\ UNCHANGED others
  \/ \E nm \in Names : Started /\ HasChildCall(nm) /\ UNCHANGED others
  \/ \E nm \in Names : Started /\ RemoveChild(nm) /\ UNCHANGED others
  \/ \E c \in Children, nm \in Names :
       Started /\ SetChild(c, nm) /\ UNCHANGED others

SpecStaticInit == InitStatic /\ [][NextStaticInit]_allVars

(***************************************************************************)
(* The Towers of Hanoi game of curses-ui.cpp: the operations.              *)
(***************************************************************************)
\* the macro OTHER(a, b), a reserved word here: the peg that is neither a nor b
OtherPeg(a, b) == CHOOSE p \in PegIds : p \notin {a, b}

InvalidMove(From, To) ==
  \/ From >= NPEGS
  \/ From < 0
  \/ To >= NPEGS
  \/ To < 0
  \/ From = To
  \/ Pegs[From].Count = 0
  \/ /\ Pegs[To].Count # 0
     /\ Pegs[From].Length[Pegs[From].Count - 1] >
          Pegs[To].Length[Pegs[To].Count - 1]

\* the board after InitTiles(N): N tiles of sizes 2N+1 down to 3 on peg 0
InitTiles(P, N) ==
  [p \in PegIds |->
     IF p = 0
       THEN [Length |-> [s \in Slots |-> IF s < N THEN N * 2 + 1 - 2 * s
                                         ELSE P[0].Length[s]],
             Count |-> N]
       ELSE [P[p] EXCEPT !.Count = 0]]

\* MakeMove without the decrement of the source peg's Count
MakeMove_copy(P, n, From, To) ==
  LET P2 == [P EXCEPT ![To].Length[P[To].Count] =
                        P[From].Length[P[From].Count - 1]]
      P3 == [P2 EXCEPT ![To].Count = @ + 1]
  IN  [Pegs |-> P3, NMoves |-> n + 1]

\* the board and the counter after MakeMove(From, To)
MakeMove(P, n, From, To) ==
  LET P1 == [P EXCEPT ![From].Count = @ - 1]
      P2 == [P1 EXCEPT ![To].Length[P1[To].Count] =
                         P1[From].Length[P1[From].Count]]
      P3 == [P2 EXCEPT ![To].Count = @ + 1]
  IN  [Pegs |-> P3, NMoves |-> n + 1]

SolvedIn(P, NumTiles) == \E i \in 1..(NPEGS - 1) : P[i].Count = NumTiles

Solved(NumTiles) == SolvedIn(Pegs, NumTiles)

\* the values GetMove hands back: the key pressed minus '1'
Keys == (-1)..NPEGS

\* an activation of AutoMove(From, To, Num) and where it is
Frame(From, To, Num, at_) == [From |-> From, To |-> To, Num |-> Num, at |-> at_]

Top == stack[Len(stack)]
Pop == SubSeq(stack, 1, Len(stack) - 1)
Replace(frame) == [stack EXCEPT ![Len(stack)] = frame]

\* main, line 74: InitTiles(NTiles), then the branch on AutoFlag
InitTilesCall ==
  /\ pc = "init"
  /\ Pegs' = InitTiles(Pegs, NTiles)
  /\ pc' = IF AutoFlag THEN "auto" ELSE "play"
  /\ UNCHANGED <<NMoves, NTiles, AutoFlag, stack, calls, loops>>

\* main, lines 85-102: one round of the player's loop with a move read
PlayerMove(From, To) ==
  /\ pc = "play"
  /\ NMoves < MaxMoves
  /\ IF InvalidMove(From, To)
       THEN UNCHANGED <<Pegs, NMoves, pc, calls>>
       ELSE LET m == MakeMove(Pegs, NMoves, From, To) IN
            /\ Pegs' = m.Pegs
            /\ NMoves' = m.NMoves
            /\ calls' = calls + 1
            /\ pc' = IF SolvedIn(m.Pegs, NTiles) THEN "done" ELSE "play"
  /\ UNCHANGED <<NTiles, AutoFlag, stack, loops>>

\* main, lines 86-87: GetMove read a 'q'
PlayerQuit ==
  /\ pc = "play"
  /\ pc' = "done"
  /\ UNCHANGED <<Pegs, NMoves, NTiles, AutoFlag, stack, calls, loops>>

\* main, line 79: the demo loop calls AutoMove(0, 2, NTiles)
AutoMoveCall ==
  /\ pc = "auto"
  /\ stack' = <<Frame(0, 2, NTiles, "entry")>>
  /\ loops' = loops + 1
  /\ pc' = "run"
  /\ UNCHANGED <<Pegs, NMoves, NTiles, AutoFlag, calls>>

\* AutoMove with Num == 1 returning without the move
AutoMoveBase_skip ==
  /\ pc = "run" /\ stack # << >>
  /\ Top.at = "entry" /\ Top.Num = 1
  /\ stack' = Pop
  /\ UNCHANGED <<Pegs, NMoves, NTiles, AutoFlag, pc, calls, loops>>

\* AutoMove, lines 236-240: Num == 1
AutoMoveBase ==
  /\ pc = "run" /\ stack # << >>
  /\ Top.at = "entry" /\ Top.Num = 1
  /\ LET m == MakeMove(Pegs, NMoves, Top.From, Top.To) IN
       /\ Pegs' = m.Pegs
       /\ NMoves' = m.NMoves
  /\ calls' = calls + 1
  /\ stack' = Pop
  /\ UNCHANGED <<NTiles, AutoFlag, pc, loops>>

\* AutoMove, line 241: the first recursive call
AutoMoveFirst ==
  /\ pc = "run" /\ stack # << >>
  /\ Top.at = "entry" /\ Top.Num # 1
  /\ stack' = Append(Replace([Top EXCEPT !.at = "move"]),
                     Frame(Top.From, OtherPeg(Top.From, Top.To), Top.Num - 1,
                           "entry"))
  /\ UNCHANGED <<Pegs, NMoves, NTiles, AutoFlag, pc, calls, loops>>

\* AutoMove, line 242: the move between the recursive calls
AutoMoveMiddle ==
  /\ pc = "run" /\ stack # << >>
  /\ Top.at = "move"
  /\ LET m == MakeMove(Pegs, NMoves, Top.From, Top.To) IN
       /\ Pegs' = m.Pegs
       /\ NMoves' = m.NMoves
  /\ calls' = calls + 1
  /\ stack' = Replace([Top EXCEPT !.at = "second"])
  /\ UNCHANGED <<NTiles, AutoFlag, pc, loops>>

\* AutoMove, line 244: the second recursive call
AutoMoveSecond ==
  /\ pc = "run" /\ stack # << >>
  /\ Top.at = "second"
  /\ stack' = Append(Replace([Top EXCEPT !.at = "return"]),
                     Frame(OtherPeg(Top.From, Top.To), Top.To, Top.Num - 1,
                           "entry"))
  /\ UNCHANGED <<Pegs, NMoves, NTiles, AutoFlag, pc, calls, loops>>

\* AutoMove, line 245: the return after the second recursive call
AutoMoveReturn ==
  /\ pc = "run" /\ stack # << >>
  /\ Top.at = "return"
  /\ stack' = Pop
  /\ UNCHANGED <<Pegs, NMoves, NTiles, AutoFlag, pc, calls, loops>>

\* main, line 80: while (!Solved(NTiles)) after AutoMove has returned
AutoLoopTest ==
  /\ pc = "run" /\ stack = << >>
  /\ pc' = IF Solved(NTiles) THEN "done" ELSE "auto"
  /\ UNCHANGED <<Pegs, NMoves, NTiles, AutoFlag, stack, calls, loops>>

\* main after the options were read: NTiles and AutoFlag as the cases 'n'
\* and 'a' of the switch set them, or NTiles still 0 when no option was
\* given.  (The option string handed to getopt, line 21, has no 'a': the
\* demo is modelled as the switch and AutoMove would run it.)
InitHanoi ==
  /\ RegistryInit
  /\ GuardIdle
  /\ owned = NoHandle
  /\ Started
  /\ ProgramStart
  /\ MainStart
  /\ AutoFlag \in BOOLEAN
  /\ NTiles \in IF AutoFlag THEN 1..MaxTiles ELSE 0..MaxTiles

\* the steps of the demo
NextAuto ==
  \/ InitTilesCall /\ UNCHANGED hanoiFrame
  \/ AutoMoveCall /\ UNCHANGED hanoiFrame
  \/ AutoMoveBase /\ UNCHANGED hanoiFrame
  \/ AutoMoveFirst /\ UNCHANGED hanoiFrame
  \/ AutoMoveMiddle /\ UNCHANGED hanoiFrame
  \/ AutoMoveSecond /\ UNCHANGED hanoiFrame
  \/ AutoMoveReturn /\ UNCHANGED hanoiFrame
  \/ AutoLoopTest /\ UNCHANGED hanoiFrame

\* the steps of the player
NextPlayer ==
  \/ \E From \in Keys, To \in Keys :
       PlayerMove(From, To) /\ UNCHANGED hanoiFrame
  \/ PlayerQuit /\ UNCHANGED hanoiFrame

NextHanoi ==
  \/ NextAuto
  \/ NextPlayer

SpecHanoi == InitHanoi /\ [][NextHanoi]_allVars

\* the program keeps running: a step of main that can be taken is taken
SpecHanoiFair ==
  InitHanoi /\ [][NextHanoi]_allVars /\ WF_allVars(NextAuto)

TypeOK ==
  /\ DOMAIN creators_ \subseteq Names
  /\ \A nm \in DOMAIN creators_ : creators_[nm] \in Children
  /\ name_ \in [Children -> Names]

(***************************************************************************)
(* Vocabulary of the properties.                                           *)
(***************************************************************************)
\* the names bound to the creator of Child
BoundNames(tab, Child) ==
  {nm \in DOMAIN tab : tab[nm] = GetCreator(Child)}

\* the binding of nm: its creator, NullObj when nm is not bound
Binding(tab, nm) == IF HasChildIn(tab, nm) THEN at(tab, nm) ELSE NullObj

CreateOps == {"Create", "CreateUnique", "CreateShared"}

\* the step is a call that removes the binding of nm
RemovalOf(nm) ==
  \/ last'.op = "RemoveChild" /\ last'.name = nm
  \/ last'.op = "SetName" /\ name_[last'.child] = nm

\* the step is a call that binds nm
BindingOf(nm) ==
  /\ last'.op \in {"SetChild", "SetName"}
  /\ last'.name = nm
  /\ last'.ret

\* C1: a SetChild<D>(N) for a name N that is bound to C returns false and
\* leaves the table as it was, so Create(N) still constructs a C.
Uniqueness ==
  [][ (last'.op = "SetChild" /\ HasChild(last'.name)) =>
        /\ ~last'.ret
        /\ creators_' = creators_
        /\ CreateIn(creators_', last'.name) = at(creators_, last'.name) ]_vars

UniquenessWitness ==
  /\ last.op = "SetChild"
  /\ ~last.ret
  /\ last.name # Empty
  /\ Binding(creators_, last.name) \in Children \ {last.child}

\* C2: after a SetChild<C>(N) that returned true N is bound to C; a binding
\* stays as it is over every step that is not a removal of its name; and
\* Create of a bound name returns a new instance of the bound type.
RoundTrip ==
  [][ /\ (last'.op = "SetChild" /\ last'.ret) =>
           /\ HasChildIn(creators_', last'.name)
           /\ CreateIn(creators_', last'.name) = last'.child
      /\ \A nm \in Names :
           (HasChild(nm) /\ ~RemovalOf(nm)) =>
             /\ HasChildIn(creators_', nm)
             /\ at(creators_', nm) = at(creators_, nm)
      /\ (last'.op = "Create" /\ HasChild(last'.name)) =>
           /\ last'.obj # NullObj
           /\ last'.obj = at(creators_, last'.name) ]_vars

RoundTripWitness ==
  /\ last.op = "Create"
  /\ last.obj \in Children
  /\ HasChild(last.name)
  /\ last.obj = at(creators_, last.name)

\* C3: RemoveChild(N) returns true exactly when N is bound, removes the
\* binding of N and no other, and returns false without a change otherwise;
\* an unbound name stays unbound, and Create of it returns null, until a
\* SetChild or SetName binds it.
Removal ==
  [][ /\ last'.op = "RemoveChild" =>
           /\ last'.ret = HasChild(last'.name)
           /\ ~HasChildIn(creators_', last'.name)
           /\ \A nm \in Names \ {last'.name} :
                Binding(creators_', nm) = Binding(creators_, nm)
           /\ ~HasChild(last'.name) => creators_' = creators_
      /\ \A nm \in Names :
           (~HasChild(nm) /\ ~BindingOf(nm)) => ~HasChildIn(creators_', nm)
      /\ (last'.op = "Create" /\ ~HasChild(last'.name)) =>
           last'.obj = NullObj ]_vars

RemovalWitness ==
  /\ last.op = "RemoveChild"
  /\ last.ret
  /\ ~HasChild(last.name)
  /\ DOMAIN creators_ # {}

\* C4: Create, CreateUnique and CreateShared leave the table as it was, and
\* for an unbound name construct nothing and return null / an empty handle.
CreateFrame ==
  [][ last'.op \in CreateOps =>
        /\ creators_' = creators_
        /\ ~HasChild(last'.name) =>
             /\ last'.obj = NullObj
             /\ name_' = name_
             /\ last'.handle \in {"none", "empty"} ]_vars

\* the list holds each bound name once, in ascending order
IsSortedNames(list) ==
  /\ \A i, j \in DOMAIN list : i < j => StrLess(list[i], list[j])
  /\ {list[i] : i \in DOMAIN list} = {nm \in Names : HasChild(nm)}

\* C5: GetChildren returns all bound names, each once, in ascending
\* lexicographic order.
EnumerationOrder ==
  last.op = "GetChildren" => IsSortedNames(last.list)

\* C6: the empty name is never bound: SetChild with the empty name returns
\* false and changes nothing, and SetChild<C> with an unbound non-empty name
\* binds it to C and returns true.
EmptyNameRejected ==
  /\ [] ~HasChild(Empty)
  /\ [][ last'.op = "SetChild" =>
           /\ last'.name = Empty => (~last'.ret /\ creators_' = creators_)
           /\ (last'.name # Empty /\ ~HasChild(last'.name)) =>
                /\ last'.ret
                /\ Binding(creators_', last'.name) = last'.child
                /\ \A nm \in Names \ {last'.name} :
                     Binding(creators_', nm) = Binding(creators_, nm) ]_vars

EmptyNameRejectedWitness ==
  /\ last.op = "SetChild"
  /\ last.name = Empty
  /\ ~last.ret
  /\ DOMAIN creators_ # {}

\* C7: GetName() of a child type, and name() of its instances, is the name
\* the type is bound under, and the empty string when it is bound under none.
NameIdentity ==
  \A c \in Children :
    /\ name(c) = GetName(c)
    /\ IF BoundNames(creators_, c) = {}
         THEN GetName(c) = Empty
         ELSE BoundNames(creators_, c) = {GetName(c)}

\* C8: after a SetName(N) that returned true the type is bound under N,
\* GetName() is N, and no other name the type was bound under stays bound.
SuccessfulRename ==
  [][ (last'.op = "SetName" /\ last'.ret) =>
        /\ CreateIn(creators_', last'.name) = last'.child
        /\ c_str(name_'[last'.child]) = last'.name
        /\ \A old \in BoundNames(creators_, last'.child) \ {last'.name} :
             /\ ~HasChildIn(creators_', old)
             /\ CreateIn(creators_', old) = NullObj ]_vars

\* C9: a child type that is registered and renamed through SetName only is
\* bound under at most one name.
AtMostOneName ==
  \A c \in Children : Cardinality(BoundNames(creators_, c)) <= 1

\* the case of a failed rename: the step is C::SetName(N), C has the name
\* M, which is its one binding, and N is bound to another type
FailedRenameCase(c, m, n) ==
  /\ last'.op = "SetName"
  /\ last'.child = c
  /\ last'.name = n
  /\ GetName(c) = m
  /\ BoundNames(creators_, c) = {m}
  /\ Binding(creators_, n) \in Children \ {c}

FailedRenameCommon(c, m, n) ==
  /\ last'.ret = FALSE
  /\ ~HasChildIn(creators_', m)
  /\ Binding(creators_', n) = Binding(creators_, n)
  /\ BoundNames(creators_', c) = {}

FailedSetNameKeepsGetName ==
  [][ (last'.op = "SetName" /\ ~last'.ret) =>
        c_str(name_'[last'.child]) = GetName(last'.child) ]_vars

FailedSetNameWitness ==
  /\ last.op = "SetName"
  /\ ~last.ret
  /\ GetName(last.child) # Empty
  /\ GetName(last.child) # last.name

\* C12: the first use of a child type declared with the fixed name N, the
\* construction of its first instance, triggers its guard: after it N is
\* bound and Create(N) constructs that child type; and the guard of a child
\* type declared with no name leaves the table as it was.
SelfRegistration ==
  [][ /\ \A c \in Children :
           ( /\ Name(c) # nullptr
             /\ name_[c] = Empty
             /\ last'.op \in CreateOps
             /\ last'.obj = c ) =>
             /\ HasChildIn(creators_', Name(c))
             /\ CreateIn(creators_', Name(c)) = c
      /\ (last'.op = "RegisterActivator" /\ Name(last'.child) = nullptr) =>
           creators_' = creators_ ]_allVars

\* C15: the guard of a child type calls SetChild at most once; a guard that
\* is triggered when its flag is set leaves the table as it was, whatever
\* has become of the binding of Name; and the flag is never reset.
OneShotGuard ==
  /\ [](\A c \in Children : guardCalls[c] <= 1)
  /\ [][ /\ (last'.op = "RegisterActivator" /\ registered[last'.child]) =>
             /\ creators_' = creators_
             /\ guardCalls' = guardCalls
         /\ \A c \in Children : registered[c] => registered'[c]
         /\ \A c \in Children :
              guardCalls'[c] # guardCalls[c] =>
                (~registered[c] /\ registered'[c]) ]_allVars

\* a later triggering of the guard of a named child type whose name is bound
\* to no type: the binding was removed after the one SetChild of the guard
OneShotGuardWitness ==
  /\ last.op = "RegisterActivator"
  /\ Name(last.child) # nullptr
  /\ guardCalls[last.child] = 1
  /\ ~HasChild(Name(last.child))

\* C13: the instance made by CreateUnique or CreateShared is not released
\* while the caller holds the handle, and is released exactly once when the
\* handle has reached the end of its scope.
Ownership ==
  owned.obj # NullObj =>
    IF owned.handle # "none" THEN owned.releases = 0
    ELSE owned.releases = 1

\* C14 as stated: Create of the empty name returns a non-null instance of
\* the base type itself, whatever the table holds.
EmptyNameCreatesBase ==
  (last.op = "Create" /\ last.name = Empty) =>
    (last.obj # NullObj /\ last.obj \notin Children)

\* C14 as amended: Create of the empty name returns nullptr, whatever the
\* table holds.
EmptyNameCreatesNothing ==
  (last.op = "Create" /\ last.name = Empty) =>
    (last.obj = NullObj /\ ~last.ret)

EmptyNameCreateWitness ==
  /\ last.op = "Create"
  /\ last.name = Empty
  /\ last.obj = NullObj
  /\ DOMAIN creators_ # {}

TableOps == {"SetChild", "RemoveChild", "HasChild", "Create", "GetChildren"}

\* C16: in whatever order the static initialisers run, every step that
\* reads or writes the table, a call of a table operation or a guard calling
\* SetChild, is taken when the table has been constructed.
TableConstructedBeforeUse ==
  [][ (last'.op \in TableOps \/ guardCalls' # guardCalls) =>
        TableMember \in initialised ]_allVars

\* C17: a C::SetName(N) leaves every binding of a child type other than C
\* as it was.
RenameFrame ==
  [][ last'.op = "SetName" =>
        \A nm \in Names :
          Binding(creators_, nm) \in Children \ {last'.child} =>
            Binding(creators_', nm) = Binding(creators_, nm) ]_vars

\* the slots of a peg that hold a tile
Held(p) == 0..(Pegs[p].Count - 1)

\* the sizes of the tiles InitTiles(N) places
TileSizes(N) == {2 * k + 1 : k \in 1..N}

\* the places, peg and slot, where a tile of the size lies
Places(size) ==
  {ps \in PegIds \X Slots :
     ps[2] \in Held(ps[1]) /\ Pegs[ps[1]].Length[ps[2]] = size}

\* C18: after InitTiles(N) and any moves InvalidMove accepted, the tiles of
\* every peg are strictly decreasing from the bottom to the top, the Counts
\* sum to N, the tiles on the pegs are the N tiles of sizes 3, 5, ..., 2N+1,
\* each once, and NMoves is the number of MakeMove calls.
BoardInvariant ==
  pc # "init" =>
    /\ \A p \in PegIds : \A i, j \in Held(p) :
         i < j => Pegs[p].Length[i] > Pegs[p].Length[j]
    /\ Pegs[0].Count + Pegs[1].Count + Pegs[2].Count = NTiles
    /\ \A p \in PegIds : \A i \in Held(p) :
         Pegs[p].Length[i] \in TileSizes(NTiles)
    /\ \A size \in TileSizes(NTiles) : Cardinality(Places(size)) = 1
    /\ NMoves = calls

BoardInvariantWitness ==
  /\ pc = "play"
  /\ NTiles = 3
  /\ calls >= 3
  /\ Pegs[0].Count = 1
  /\ Pegs[1].Count = 1
  /\ Pegs[2].Count = 1

\* C19: AutoMove(0, 2, N) after InitTiles(N) returns, after exactly 2^N - 1
\* calls of MakeMove, each a move InvalidMove accepts when it is made, with
\* all N tiles on peg 2; Solved(N) is then TRUE, and the demo loop ends
\* after its first round.
AutoSolve ==
  /\ [](( /\ AutoFlag
          /\ \/ pc = "run" /\ stack = << >>
             \/ pc = "done" ) =>
          /\ calls = 2 ^ NTiles - 1
          /\ Pegs[2].Count = NTiles
          /\ Solved(NTiles)
          /\ loops = 1)
  /\ [][ (pc = "run" /\ calls' # calls) =>
           ~InvalidMove(Top.From, Top.To) ]_allVars
  /\ (AutoFlag ~> (pc = "done"))

AutoSolveWitness ==
  /\ AutoFlag
  /\ pc = "done"
  /\ NTiles = 3
  /\ calls = 7
  /\ Pegs[2].Count = 3

====
